---- MODULE Spec2Model ----
(***************************************************************************)
(* Model of the simple-crawler repository: the two stand-alone scripts     *)
(* (book.py, movie.py) and the three scraper classes                       *)
(* (DangdangBookScraper and DoubanMovieScraper of                          *)
(* web_scraping_visualization.py, DoubanMovieScraper of                    *)
(* movie_crawlerAndvisualization.py).                                      *)
(*                                                                         *)
(* Texts are sequences of one-character strings.  A Python float parsed    *)
(* from a decimal text is the exact decimal [neg, m, e] = (-1)^neg*m/10^e  *)
(* with trailing zeros removed, so 59.80 and 59.8 are the same value.      *)
(***************************************************************************)
EXTENDS Integers, Sequences, FiniteSets, TLC

(***************************************************************************)
(* Bounds of the model.                                                    *)
(***************************************************************************)
\* largest max_pages a crawl is called with
MaxPages == 2
\* largest number of items / listing blocks in one page body
MaxItems == 2
\* largest number of listings a scraper object holds when a page is served
MaxBooks == 2
\* a scraper object is crawled again only while it holds at most this many
MaxCarry == 1
\* largest number of tokens of a price text in the normalization runs
MaxTok == 3

(***************************************************************************)
(* Text helpers (Python str methods).                                      *)
(***************************************************************************)
Digits == {"0", "1", "2", "3", "4", "5", "6", "7", "8", "9"}

DigitVal(c) ==
    CASE c = "0" -> 0 [] c = "1" -> 1 [] c = "2" -> 2 [] c = "3" -> 3
      [] c = "4" -> 4 [] c = "5" -> 5 [] c = "6" -> 6 [] c = "7" -> 7
      [] c = "8" -> 8 [] c = "9" -> 9

\* the characters str.strip() and float()/int() treat as white space
Whitespace == {" "}

RECURSIVE LStrip(_)
LStrip(s) ==
    IF s # <<>> /\ Head(s) \in Whitespace THEN LStrip(Tail(s)) ELSE s

RECURSIVE RStrip(_)
RStrip(s) ==
    IF s # <<>> /\ s[Len(s)] \in Whitespace
    THEN RStrip(SubSeq(s, 1, Len(s) - 1))
    ELSE s

\* str.strip()
Strip(s) == RStrip(LStrip(s))

\* s.startswith(pat)
StartsWith(s, pat) ==
    /\ Len(pat) <= Len(s)
    /\ SubSeq(s, 1, Len(pat)) = pat

\* s.replace(pat, ''): left to right, non-overlapping, one pass
RECURSIVE Remove(_, _)
Remove(s, pat) ==
    IF s = <<>> THEN <<>>
    ELSE IF StartsWith(s, pat)
         THEN Remove(SubSeq(s, Len(pat) + 1, Len(s)), pat)
         ELSE <<Head(s)>> \o Remove(Tail(s), pat)

RECURSIVE DigitsValue(_)
DigitsValue(s) ==
    IF s = <<>> THEN 0
    ELSE 10 * DigitsValue(SubSeq(s, 1, Len(s) - 1)) + DigitVal(s[Len(s)])

AllDigits(s) == \A k \in 1..Len(s) : s[k] \in Digits

\* the exact decimal m / 10^e without trailing zeros of the fraction
RECURSIVE Canon(_, _, _)
Canon(neg, m, e) ==
    IF e > 0 /\ m % 10 = 0 THEN Canon(neg, m \div 10, e - 1)
    ELSE [neg |-> neg /\ m # 0, m |-> m, e |-> e]

Zero == Canon(FALSE, 0, 0)

\* position of the first "." of s, 0 when there is none
DotAt(s) ==
    IF \E k \in 1..Len(s) : s[k] = "."
    THEN CHOOSE k \in 1..Len(s) : s[k] = "." /\ \A j \in 1..(k - 1) : s[j] # "."
    ELSE 0

\* float(s) on a text of sign, digits, "." and white space: [ok |-> FALSE] is
\* ValueError
ParseFloat(s) ==
    LET t    == Strip(s)
        neg  == t # <<>> /\ Head(t) = "-"
        sgn  == t # <<>> /\ Head(t) \in {"-", "+"}
        u    == IF sgn THEN Tail(t) ELSE t
        d    == DotAt(u)
        ip   == IF d = 0 THEN u ELSE SubSeq(u, 1, d - 1)
        fp   == IF d = 0 THEN <<>> ELSE SubSeq(u, d + 1, Len(u))
    IN  IF AllDigits(ip) /\ AllDigits(fp) /\ Len(ip) + Len(fp) > 0
        THEN [ok |-> TRUE, val |-> Canon(neg, DigitsValue(ip \o fp), Len(fp))]
        ELSE [ok |-> FALSE, val |-> Zero]

\* int(s) on a text of sign, digits and white space: [ok |-> FALSE] is ValueError
ParseInt(s) ==
    LET t    == Strip(s)
        neg  == t # <<>> /\ Head(t) = "-"
        sgn  == t # <<>> /\ Head(t) \in {"-", "+"}
        u    == IF sgn THEN Tail(t) ELSE t
    IN  IF AllDigits(u) /\ Len(u) > 0
        THEN [ok |-> TRUE, val |-> IF neg THEN 0 - DigitsValue(u) ELSE DigitsValue(u)]
        ELSE [ok |-> FALSE, val |-> 0]

(***************************************************************************)
(* Price normalization of DangdangBookScraper.parse_result.                *)
(***************************************************************************)
YenEntity == <<"&", "y", "e", "n", ";">>
YenSign == <<"¥">>
FullwidthYen == <<"￥">>

\* StripGlyphs without the replace of the full-width yen sign
StripGlyphsAscii(price_str) ==
    Strip(Remove(Remove(price_str, YenEntity), YenSign))

\* the three chained str.replace calls and the strip()
StripGlyphs(price_str) ==
    Strip(Remove(Remove(Remove(price_str, YenEntity), YenSign), FullwidthYen))

\* price_str = item[6] if item[6] else "0"
PriceDefault(raw) == IF raw # <<>> THEN raw ELSE <<"0">>

\* try: price = float(price_str) if price_str else 0 / except ValueError: 0.
\* raised is TRUE when an exception leaves the block.
ToPrice(price_str) ==
    IF price_str = <<>> THEN [raised |-> FALSE, val |-> Zero]
    ELSE IF ParseFloat(price_str).ok
         THEN [raised |-> FALSE, val |-> ParseFloat(price_str).val]
         ELSE [raised |-> FALSE, val |-> Zero]

NormalizePrice(raw) == ToPrice(StripGlyphs(PriceDefault(raw)))

(***************************************************************************)
(* Page bodies.  A body is [container, items]: for a movie page, whether   *)
(* the element of class grid_view is there, and its items; for a book page *)
(* the listing blocks in document order.                                   *)
(***************************************************************************)
Variants == {"book_py", "movie_py", "DangdangBookScraper",
             "DoubanMovieScraper", "DoubanMovieScraperWeb"}
BookVariants == {"book_py", "DangdangBookScraper"}
MovieVariants == Variants \ BookVariants
\* the scraper classes: they keep the listings in the object
ClassVariants == {"DangdangBookScraper", "DoubanMovieScraper",
                  "DoubanMovieScraperWeb"}

NotAvailable == "NOT AVAILABLE"
\* the text of the element of class inq
InqText == "inq"
\* what .string gives for an element that has no single string child (an
\* empty element, or one with several children)
NoString == "None"

\* a movie item with every sub-element; inq: whether the element of class inq
\* is there, inqString: whether that element has a single string child
MovieItem(name, rank, score, inq) ==
    [name |-> name, title |-> TRUE, img |-> TRUE, rankEl |-> TRUE, rank |-> rank,
     scoreEl |-> TRUE, score |-> score, p |-> TRUE, inq |-> inq,
     inqString |-> TRUE]

GoodItems ==
    { MovieItem("A", <<"1">>, <<"1", "0", ".", "0">>, TRUE),
      MovieItem("B", <<"2">>, <<"0", ".", "0">>, FALSE),
      MovieItem("C", <<"2">>, <<"1", "5", ".", "0">>, TRUE) }

BaseItem == MovieItem("D", <<"3">>, <<"9", ".", "5">>, TRUE)

\* one defect each: a sub-element absent, or a text that does not parse
BadItems ==
    { [BaseItem EXCEPT !.title = FALSE],
      [BaseItem EXCEPT !.img = FALSE],
      [BaseItem EXCEPT !.rankEl = FALSE],
      [BaseItem EXCEPT !.scoreEl = FALSE],
      [BaseItem EXCEPT !.p = FALSE],
      [BaseItem EXCEPT !.rank = <<"x">>],
      [BaseItem EXCEPT !.score = <<"a", "b", "c">>] }

\* every sub-element is there and parses, the inq element is empty
EmptyInqItem == [BaseItem EXCEPT !.inqString = FALSE]

MovieItems == GoodItems \cup BadItems \cup {EmptyInqItem}

\* the items the pages of a crawl are made of: the good ones, one without
\* its title, one with a rank that is no number, one with an empty inq
CrawlItems ==
    GoodItems \cup { [BaseItem EXCEPT !.title = FALSE],
                     [BaseItem EXCEPT !.rank = <<"x">>],
                     EmptyInqItem }

\* the fragments the pattern of parse_result asks for, in its order
Fragments == <<"li", "num", "img", "name", "star", "tuijian", "pub", "biao",
               "price", "endli">>
\* the fragments with a capture group
Groups == <<"num", "img", "name", "tuijian", "pub", "biao", "price">>

\* a listing block: its rank digits, its price text, the fragment it lacks
BookBlock(rank, price, missing) ==
    [rank |-> rank, price |-> price, missing |-> missing]

BookBlocks ==
    { BookBlock(<<"1">>, <<"&", "y", "e", "n", ";", "5", "9", ".", "8", "0">>, "none"),
      BookBlock(<<"2">>, <<>>, "none"),
      BookBlock(<<"2">>, <<"¥", "x">>, "none"),
      BookBlock(<<"3">>, <<"5">>, "num"),
      BookBlock(<<"3">>, <<"5">>, "price") }

SeqsUpTo(S, n) == UNION { [1..k -> S] : k \in 0..n }

Bodies(v, room) ==
    LET n == IF room < MaxItems THEN room ELSE MaxItems
    IN  IF v \in BookVariants
        THEN { [container |-> TRUE, items |-> b] : b \in SeqsUpTo(BookBlocks, n) }
        ELSE { [container |-> TRUE, items |-> b] : b \in SeqsUpTo(CrawlItems, n) }
             \cup { [container |-> FALSE, items |-> <<>>] }

(***************************************************************************)
(* Structural extraction: parse_movies.  The outcome for one item is       *)
(* "ok" with the listing, "skip" (continue, or an exception caught in the  *)
(* loop) or "raise" (an exception that leaves parse_movies).               *)
(***************************************************************************)
\* Intro without the else branch: .string of the inq element, found or not
IntroNoDefault(item) ==
    IF item.inq /\ item.inqString THEN InqText ELSE NoString

\* item_intr = inq_element.string if inq_element else 'NOT AVAILABLE'
Intro(item) ==
    IF item.inq THEN (IF item.inqString THEN InqText ELSE NoString)
    ELSE NotAvailable

\* the print of the item line: '...' + item_intr is a TypeError when
\* item_intr is None
PrintRaises(item) == Intro(item) = NoString

Skip == [res |-> "skip", listing |-> <<>>]
Raise == [res |-> "raise", listing |-> <<>>]
Ok(listing) == [res |-> "ok", listing |-> listing]

TypedMovie(item) ==
    [name |-> item.name, rank |-> ParseInt(item.rank).val,
     score |-> ParseFloat(item.score).val, intro |-> Intro(item)]

RawMovie(item) ==
    [name |-> item.name, rank_text |-> item.rank, score_text |-> item.score,
     intro |-> Intro(item)]

\* a decimal in [0, 10]
RECURSIVE Pow10(_)
Pow10(e) == IF e = 0 THEN 1 ELSE 10 * Pow10(e - 1)
InRange(d) == ~d.neg /\ d.m <= 10 * Pow10(d.e)

\* ParseItem with a range check on the rating
ParseItemRanged(item) ==
    IF ~item.title THEN Skip
    ELSE IF ~item.img THEN Skip
    ELSE IF ~item.rankEl THEN Skip
    ELSE IF ~item.scoreEl THEN Skip
    ELSE IF ~ParseFloat(item.score).ok THEN Skip
    ELSE IF ~InRange(ParseFloat(item.score).val) THEN Skip
    ELSE IF ~item.p THEN Skip
    ELSE IF PrintRaises(item) THEN Skip
    ELSE IF ~ParseInt(item.rank).ok THEN Skip
    ELSE Ok(TypedMovie(item))

\* movie_crawlerAndvisualization.py: every sub-element is tested and the
\* item left with continue; float() and int() raise ValueError inside the try
ParseItem(item) ==
    IF ~item.title THEN Skip
    ELSE IF ~item.img THEN Skip
    ELSE IF ~item.rankEl THEN Skip
    ELSE IF ~item.scoreEl THEN Skip
    ELSE IF ~ParseFloat(item.score).ok THEN Skip
    ELSE IF ~item.p THEN Skip
    ELSE IF PrintRaises(item) THEN Skip
    ELSE IF ~ParseInt(item.rank).ok THEN Skip
    ELSE Ok(TypedMovie(item))

\* web_scraping_visualization.py: an absent sub-element is an AttributeError
\* on None (a TypeError for the rank), caught by except Exception
ParseItemWeb(item) ==
    IF ~item.title \/ ~item.img \/ ~item.rankEl \/ ~item.scoreEl THEN Skip
    ELSE IF ~ParseFloat(item.score).ok THEN Skip
    ELSE IF ~item.p THEN Skip
    ELSE IF PrintRaises(item) THEN Skip
    ELSE IF ~ParseInt(item.rank).ok THEN Skip
    ELSE Ok(TypedMovie(item))

\* movie.py: no try, no test: an absent sub-element, or the print of a None
\* tagline, raises out of parse_movies; rank and score stay texts
ParseItemPy(item) ==
    IF ~item.title \/ ~item.img \/ ~item.rankEl \/ ~item.scoreEl \/ ~item.p
    THEN Raise
    ELSE IF PrintRaises(item) THEN Raise
    ELSE Ok(RawMovie(item))

ItemOutcome(v, item) ==
    CASE v = "DoubanMovieScraper" -> ParseItem(item)
      [] v = "DoubanMovieScraperWeb" -> ParseItemWeb(item)
      [] v = "movie_py" -> ParseItemPy(item)

\* the for loop over the items: [raised, batch]
RECURSIVE ItemLoop(_, _, _)
ItemLoop(v, items, movies) ==
    IF items = <<>> THEN [raised |-> FALSE, batch |-> movies]
    ELSE LET o == ItemOutcome(v, Head(items))
         IN  IF o.res = "raise" THEN [raised |-> TRUE, batch |-> <<>>]
             ELSE IF o.res = "skip" THEN ItemLoop(v, Tail(items), movies)
             ELSE ItemLoop(v, Tail(items), Append(movies, o.listing))

\* parse_movies(soup)
parse_movies(v, body) ==
    IF ~body.container
    THEN IF v = "movie_py"
         THEN [raised |-> TRUE, batch |-> <<>>]
         ELSE [raised |-> FALSE, batch |-> <<>>]
    ELSE ItemLoop(v, body.items, <<>>)

(***************************************************************************)
(* Pattern extraction: parse_result.  The page is the sequence of the      *)
(* fragments of its blocks; the lazy pattern takes, from a "<li", the      *)
(* first occurrence of each fragment after the one before.                 *)
(***************************************************************************)
BlockTokens(b, k) ==
    SelectSeq([j \in 1..Len(Fragments) |->
                  [frag |-> Fragments[j], blk |-> k, rank |-> b.rank,
                   price |-> b.price]],
              LAMBDA t : t.frag # b.missing)

RECURSIVE PageTokens(_, _)
PageTokens(blocks, k) ==
    IF k > Len(blocks) THEN <<>>
    ELSE BlockTokens(blocks[k], k) \o PageTokens(blocks, k + 1)

\* the first position >= pos of fragment f, 0 when there is none
FirstAt(toks, pos, f) ==
    IF \E n \in pos..Len(toks) : toks[n].frag = f
    THEN CHOOSE n \in pos..Len(toks) :
            toks[n].frag = f /\ \A j \in pos..(n - 1) : toks[j].frag # f
    ELSE 0

\* the positions of the fragments of one match from pos on, <<>> when none
RECURSIVE MatchFrom(_, _, _, _)
MatchFrom(toks, pos, j, acc) ==
    IF j > Len(Fragments) THEN acc
    ELSE LET n == FirstAt(toks, pos, Fragments[j])
         IN  IF n = 0 THEN <<>>
             ELSE MatchFrom(toks, n + 1, j + 1, Append(acc, n))

\* FindAll that stops after the first match
FindFirst(toks, pos) ==
    LET m == MatchFrom(toks, pos, 1, <<>>)
    IN  IF m = <<>> THEN <<>>
        ELSE <<[rank  |-> toks[m[2]].rank,
                price |-> toks[m[9]].price,
                src   |-> [g \in 1..Len(Groups) |->
                              toks[m[CHOOSE j \in 1..Len(Fragments) :
                                        Fragments[j] = Groups[g]]].blk]]>>

\* re.findall: the matches, each search starting where the last match ended
RECURSIVE FindAll(_, _)
FindAll(toks, pos) ==
    LET m == MatchFrom(toks, pos, 1, <<>>)
    IN  IF m = <<>> THEN <<>>
        ELSE <<[rank  |-> toks[m[2]].rank,
                price |-> toks[m[9]].price,
                src   |-> [g \in 1..Len(Groups) |->
                              toks[m[CHOOSE j \in 1..Len(Fragments) :
                                        Fragments[j] = Groups[g]]].blk]]>>
             \o FindAll(toks, m[Len(Fragments)] + 1)

TypedBook(item) ==
    [rank |-> ParseInt(item.rank).val, price |-> NormalizePrice(item.price).val,
     src |-> item.src]

RawBook(item) ==
    [rank_text |-> item.rank, price_text |-> item.price, src |-> item.src]

RECURSIVE BookLoop(_, _, _)
BookLoop(v, items, books) ==
    IF items = <<>> THEN [raised |-> FALSE, batch |-> books]
    ELSE IF v = "book_py"
         THEN BookLoop(v, Tail(items), Append(books, RawBook(Head(items))))
         ELSE IF NormalizePrice(Head(items).price).raised
                 \/ ~ParseInt(Head(items).rank).ok
              THEN [raised |-> TRUE, batch |-> <<>>]
              ELSE BookLoop(v, Tail(items), Append(books, TypedBook(Head(items))))

\* parse_result(html)
parse_result(v, body) ==
    BookLoop(v, FindAll(PageTokens(body.items, 1), 1), <<>>)

\* what the extractor of variant v makes of a page body
Extract(v, body) ==
    IF v \in BookVariants THEN parse_result(v, body) ELSE parse_movies(v, body)

(***************************************************************************)
(* The crawl: scrape_books / scrape_movies of the classes, and the         *)
(* __main__ loops of book.py and movie.py (their fixed ranges 1..25 and    *)
(* 0..9 are scaled to max_pages).                                          *)
(***************************************************************************)
VARIABLES
    variant,     \* which program runs
    pc,          \* where the crawl stands
    max_pages,   \* the page count of the running crawl
    i,           \* the loop variable
    inflight,    \* the page indexes whose GET has been sent and not answered
    html,        \* what request_dandan / request_douban returned, None once
                 \* the page is handled (the value is not read again)
    books,       \* self.books / self.movies / all_books / all_movies
    failLog,     \* the page numbers of the failure lines the running crawl
                 \* has printed, oldest first
    pageLog,     \* history: the pages this crawl has fetched, whether the
                 \* fetch gave a body, whether it was a 200 with an empty
                 \* text, and the batch the extractor made of the body
    crawlStart,  \* history: Len(books) when the running crawl started
    outcome,     \* history: how the GET of the page in hand ended, "none"
                 \* when no page is in hand
    pause,       \* history: the durations, in seconds, of the waits made
                 \* since the last GET was sent
    parsed,      \* extraction runs: what the extractor returned
    price_text,  \* normalization runs: the tokens of the price text
    price,       \* normalization runs: the outcome
    pricePc      \* normalization runs: position

vars == <<variant, pc, max_pages, i, inflight, html, books, failLog, pageLog,
          crawlStart, outcome, pause, parsed, price_text, price, pricePc>>

crawlVars == <<variant, pc, max_pages, i, inflight, html, books, failLog,
               pageLog, crawlStart, outcome, pause>>
priceVars == <<parsed, price_text, price, pricePc>>

NotParsed == [raised |-> FALSE, batch |-> <<>>]

None == [kind |-> "None", container |-> FALSE, items |-> <<>>]
EmptyText == [kind |-> "empty", container |-> FALSE, items |-> <<>>]
Body(b) == [kind |-> "body", container |-> b.container, items |-> b.items]

\* an exception that leaves request_dandan / request_douban
Raised == [kind |-> "raise", container |-> FALSE, items |-> <<>>]

\* Truthy as the test html is not None
TruthyNotNone(h) == h.kind # "None"

\* if html:
Truthy(h) == h.kind = "body"

\* time.sleep(random.uniform(1, 2)) for the books, uniform(2, 4) for the
\* movies: the durations a wait can have, the whole seconds of the interval
\* standing for its reals
SleepWindow(v) == IF v \in BookVariants THEN 1..2 ELSE 2..4

\* range(1, max_pages + 1) for the books, range(max_pages) for the movies
FirstIndex(v) == IF v \in BookVariants THEN 1 ELSE 0
LastIndex(v, n) == IF v \in BookVariants THEN n ELSE n - 1
\* the page number the program prints for index k
PageNo(v, k) == IF v \in BookVariants THEN k ELSE k + 1
\* the next value of the loop variable
NextIndex(k) == k + 1
\* the page parameter of the URL for index k: the page number for the
\* books, start = k * 25 for the movies
UrlParam(v, k) == IF v \in BookVariants THEN k ELSE k * 25

\* the rank of a listing, typed or raw
RankKey(l) == IF "rank" \in DOMAIN l THEN <<l.rank>> ELSE l.rank_text

\* Extend that leaves out a listing whose rank the list already has
RECURSIVE ExtendDedup(_, _)
ExtendDedup(list, batch) ==
    IF batch = <<>> THEN list
    ELSE IF \E k \in 1..Len(list) : RankKey(list[k]) = RankKey(Head(batch))
         THEN ExtendDedup(list, Tail(batch))
         ELSE ExtendDedup(Append(list, Head(batch)), Tail(batch))

\* list.extend
Extend(list, batch) == list \o batch

FetchOutcomes == {"exception", "non200", "empty200", "body"}
\* the body of a response that has none, or an empty one
NoBody == [container |-> FALSE, items |-> <<>>]

\* Returned without the except clause: the RequestException leaves the
\* function
ReturnedUncaught(o, b) ==
    CASE o = "exception" -> Raised
      [] o = "non200" -> None
      [] o = "empty200" -> EmptyText
      [] o = "body" -> Body(b)

\* the value request_dandan / request_douban returns: the except branch
\* returns None, a status other than 200 falls off the end (None), a 200
\* returns response.text
Returned(o, b) ==
    CASE o = "exception" -> None
      [] o = "non200" -> None
      [] o = "empty200" -> EmptyText
      [] o = "body" -> Body(b)

Init ==
    /\ variant \in Variants
    /\ pc = "idle"
    /\ max_pages = 0
    /\ i = 0
    /\ inflight = {}
    /\ html = None
    /\ books = <<>>
    /\ failLog = <<>>
    /\ pageLog = <<>>
    /\ crawlStart = 0
    /\ outcome = "none"
    /\ pause = <<>>
    /\ parsed = NotParsed
    /\ price_text = <<>>
    /\ price = [raised |-> FALSE, val |-> Zero]
    /\ pricePc = "off"

\* scrape_books(max_pages=n) / scrape_movies(max_pages=n) is called, or the
\* script starts; a second call on the same scraper object finds self.books
\* as the first call left it
Start(n) ==
    /\ \/ pc = "idle"
       \/ pc = "done" /\ variant \in ClassVariants /\ Len(books) <= MaxCarry
    /\ max_pages' = n
    /\ i' = FirstIndex(variant)
    /\ pc' = "loop"
    /\ pageLog' = <<>>
    /\ crawlStart' = Len(books)
    /\ failLog' = <<>>
    /\ pause' = <<>>
    /\ UNCHANGED <<variant, inflight, html, books, outcome, priceVars>>

\* Request that also sends the GET of the page after
RequestAhead ==
    /\ pc = "loop"
    /\ i <= LastIndex(variant, max_pages)
    /\ inflight' = inflight \cup {i, NextIndex(i)}
    /\ pc' = "waiting"
    /\ pause' = <<>>
    /\ UNCHANGED <<variant, max_pages, i, html, books, failLog, pageLog,
                   crawlStart, outcome, priceVars>>

\* the GET of page i is sent
Request ==
    /\ pc = "loop"
    /\ i <= LastIndex(variant, max_pages)
    /\ inflight' = inflight \cup {i}
    /\ pc' = "waiting"
    /\ pause' = <<>>
    /\ UNCHANGED <<variant, max_pages, i, html, books, failLog, pageLog,
                   crawlStart, outcome, priceVars>>

\* the GET ends and request_* returns
Response(o, b) ==
    /\ pc = "waiting"
    /\ html' = Returned(o, b)
    /\ outcome' = o
    /\ inflight' = inflight \ {i}
    /\ pc' = IF Returned(o, b) = Raised THEN "crashed" ELSE "handle"
    /\ pageLog' = Append(pageLog, [page |-> i, ok |-> Truthy(Returned(o, b)),
                                   empty |-> (o = "empty200"), batch |-> <<>>])
    /\ UNCHANGED <<variant, max_pages, i, books, failLog, crawlStart, pause,
                   priceVars>>

\* FailedPage that ends the crawl at the failed page
FailedPageAbort ==
    /\ failLog' = Append(failLog, PageNo(variant, i))
    /\ pc' = "done"
    /\ UNCHANGED <<books, pageLog>>

\* FailedPage that prints nothing
FailedPageSilent ==
    /\ pc' = "sleep"
    /\ UNCHANGED <<books, failLog, pageLog>>

\* request_* returned no body: print the failure line
FailedPage ==
    /\ failLog' = Append(failLog, PageNo(variant, i))
    /\ pc' = "sleep"
    /\ UNCHANGED <<books, pageLog>>

\* if html: parse, extend, print the count / else: print the failure line
HandleClass ==
    /\ pc = "handle"
    /\ variant \in ClassVariants
    /\ IF Truthy(html)
       THEN LET r == Extract(variant, html)
            IN  IF r.raised
                THEN /\ pc' = "crashed"
                     /\ UNCHANGED <<books, failLog, pageLog>>
                ELSE /\ books' = Extend(books, r.batch)
                     /\ pageLog' = [pageLog EXCEPT ![Len(pageLog)].batch = r.batch]
                     /\ pc' = "sleep"
                     /\ UNCHANGED failLog
       ELSE FailedPage
    /\ html' = None
    /\ outcome' = "none"
    /\ UNCHANGED <<variant, max_pages, i, inflight, crawlStart, pause,
                   priceVars>>

\* time.sleep(random.uniform(..)), then the next iteration
Sleep(d) ==
    /\ pc = "sleep"
    /\ pause' = Append(pause, d)
    /\ i' = NextIndex(i)
    /\ pc' = "loop"
    /\ UNCHANGED <<variant, max_pages, inflight, html, books, failLog, pageLog,
                   crawlStart, outcome, priceVars>>

\* book.py / movie.py: main(i) returns the listings or [], the loop extends
\* all_books / all_movies and goes on without a pause
HandleScript ==
    /\ pc = "handle"
    /\ variant \notin ClassVariants
    /\ IF Truthy(html)
       THEN LET r == Extract(variant, html)
            IN  IF r.raised
                THEN /\ pc' = "crashed"
                     /\ UNCHANGED <<books, pageLog, i>>
                ELSE /\ books' = Extend(books, r.batch)
                     /\ pageLog' = [pageLog EXCEPT ![Len(pageLog)].batch = r.batch]
                     /\ i' = NextIndex(i)
                     /\ pc' = "loop"
       ELSE /\ i' = NextIndex(i)
            /\ pc' = "loop"
            /\ UNCHANGED <<books, pageLog>>
    /\ html' = None
    /\ outcome' = "none"
    /\ UNCHANGED <<variant, max_pages, inflight, failLog, crawlStart, pause,
                   priceVars>>

\* Return that also ends the crawl after a page that gave no listing
ReturnOnEmpty ==
    /\ pc = "loop"
    /\ \/ i > LastIndex(variant, max_pages)
       \/ pageLog # <<>> /\ pageLog[Len(pageLog)].batch = <<>>
    /\ pc' = "done"
    /\ UNCHANGED <<variant, max_pages, i, inflight, html, books, failLog,
                   pageLog, crawlStart, outcome, pause, priceVars>>

\* the range is exhausted: return self.books / write the json file
Return ==
    /\ pc = "loop"
    /\ i > LastIndex(variant, max_pages)
    /\ pc' = "done"
    /\ UNCHANGED <<variant, max_pages, i, inflight, html, books, failLog,
                   pageLog, crawlStart, outcome, pause, priceVars>>

Next ==
    \/ \E n \in 0..MaxPages : Start(n)
    \/ Request
    \/ \E o \in FetchOutcomes \ {"body"} : Response(o, NoBody)
    \/ \E b \in Bodies(variant, MaxBooks - Len(books)) : Response("body", b)
    \/ HandleClass
    \/ \E d \in SleepWindow(variant) : Sleep(d)
    \/ HandleScript
    \/ Return

Spec == Init /\ [][Next]_vars

(***************************************************************************)
(* Normalization runs: one price text, normalized once.                    *)
(***************************************************************************)
PriceTokens ==
    { YenEntity, YenSign, FullwidthYen, <<" ">>, <<"5">>,
      <<"5", "9", ".", "8", "0">>, <<".">>, <<"x">>, <<"-">>, <<"&">> }

RECURSIVE Flatten(_)
Flatten(toks) == IF toks = <<>> THEN <<>> ELSE Head(toks) \o Flatten(Tail(toks))

InitPrice ==
    /\ variant = "DangdangBookScraper"
    /\ pc = "off"
    /\ max_pages = 0
    /\ i = 0
    /\ inflight = {}
    /\ html = None
    /\ books = <<>>
    /\ failLog = <<>>
    /\ pageLog = <<>>
    /\ crawlStart = 0
    /\ outcome = "none"
    /\ pause = <<>>
    /\ parsed = NotParsed
    /\ price_text \in SeqsUpTo(PriceTokens, MaxTok)
    /\ price = [raised |-> FALSE, val |-> Zero]
    /\ pricePc = "ready"

Normalize ==
    /\ pricePc = "ready"
    /\ price' = NormalizePrice(Flatten(price_text))
    /\ pricePc' = "done"
    /\ UNCHANGED <<crawlVars, parsed, price_text>>

NextPrice == Normalize

SpecPrice == InitPrice /\ [][NextPrice]_vars

(***************************************************************************)
(* Extraction runs: one page body, parsed once by one variant.             *)
(***************************************************************************)
ParseBodies(v) ==
    IF v \in BookVariants
    THEN { [container |-> TRUE, items |-> b] : b \in SeqsUpTo(BookBlocks, MaxItems) }
    ELSE { [container |-> TRUE, items |-> b] : b \in SeqsUpTo(MovieItems, MaxItems) }
         \cup { [container |-> FALSE, items |-> <<>>] }

InitParse ==
    /\ variant \in Variants
    /\ pc = "parse"
    /\ max_pages = 0
    /\ i = 0
    /\ inflight = {}
    /\ html \in { Body(b) : b \in ParseBodies(variant) }
    /\ books = <<>>
    /\ failLog = <<>>
    /\ pageLog = <<>>
    /\ crawlStart = 0
    /\ outcome = "none"
    /\ pause = <<>>
    /\ parsed = NotParsed
    /\ price_text = <<>>
    /\ price = [raised |-> FALSE, val |-> Zero]
    /\ pricePc = "off"

Parse ==
    /\ pc = "parse"
    /\ parsed' = Extract(variant, html)
    /\ pc' = "parsed"
    /\ UNCHANGED <<variant, max_pages, i, inflight, html, books, failLog,
                   pageLog, crawlStart, outcome, pause, price_text, price,
                   pricePc>>

NextParse == Parse

SpecParse == InitParse /\ [][NextParse]_vars

(***************************************************************************)
(* Definitions the properties share.                                       *)
(***************************************************************************)
\* the listings the running crawl has appended
Appended == SubSeq(books, crawlStart + 1, Len(books))

\* the batches of the logged pages, one after the other
RECURSIVE ConcatBatches(_)
ConcatBatches(log) ==
    IF log = <<>> THEN <<>> ELSE Head(log).batch \o ConcatBatches(Tail(log))

\* the page indexes of the range of a crawl of n pages, in order
PageRange(v, n) == [k \in 1..n |-> FirstIndex(v) + k - 1]

\* the printed numbers of the logged pages that gave no body, in order
RECURSIVE FailedNumbers(_, _)
FailedNumbers(v, log) ==
    IF log = <<>> THEN <<>>
    ELSE (IF Head(log).ok THEN <<>>
          ELSE <<IF v \in BookVariants THEN Head(log).page ELSE Head(log).page + 1>>)
         \o FailedNumbers(v, Tail(log))

ClassMovieVariants == ClassVariants \cap MovieVariants

\* a movie item with its five required sub-elements and texts that parse
Complete(item) ==
    /\ item.title /\ item.img /\ item.rankEl /\ item.scoreEl /\ item.p
    /\ ParseInt(item.rank).ok
    /\ ParseFloat(item.score).ok

\* a complete item whose item line prints: the scraper classes list it
Listed(item) == Complete(item) /\ ~PrintRaises(item)

Names(seq) == [k \in 1..Len(seq) |-> seq[k].name]
Scores(seq) == [k \in 1..Len(seq) |-> seq[k].score]
Ranks(seq) == [k \in 1..Len(seq) |-> seq[k].rank]
ItemScores(seq) == [k \in 1..Len(seq) |-> ParseFloat(seq[k].score).val]

(***************************************************************************)
(* C1                                                                      *)
(***************************************************************************)
\* C1: in a crawl of a scraper class a failed fetch does not end the crawl:
\* the crawl never dies, and when it returns every page index of the range
\* has been fetched, in order, the pages without a body having added nothing
\* to the listings.
C1_FetchFailureIsolated ==
    variant \in ClassVariants =>
        /\ pc # "crashed"
        /\ pc = "done" =>
              /\ [k \in 1..Len(pageLog) |-> pageLog[k].page]
                    = PageRange(variant, max_pages)
              /\ \A k \in 1..Len(pageLog) : ~pageLog[k].ok => pageLog[k].batch = <<>>
              /\ Len(Appended) = Len(ConcatBatches(pageLog))

\* a finished crawl whose page failed and whose next page gave listings
C1_Witness ==
    /\ variant \in ClassVariants
    /\ pc = "done"
    /\ \E k \in 1..(Len(pageLog) - 1) :
          /\ ~pageLog[k].ok
          /\ pageLog[k + 1].ok
          /\ pageLog[k + 1].batch # <<>>

(***************************************************************************)
(* C2                                                                      *)
(***************************************************************************)
\* the entries of a result that are failure records for page number p
FailureRecords(result, p) ==
    { k \in 1..Len(result) :
        /\ "page_number" \in DOMAIN result[k]
        /\ result[k].page_number = p }

C3_Original ==
    pc = "done" => books = ConcatBatches(pageLog)

(***************************************************************************)
(* C4                                                                      *)
(***************************************************************************)
\* C4 as stated: no fetch, extraction or normalization error ends the crawl.
C4_Original ==
    pc # "crashed"

(***************************************************************************)
(* C5                                                                      *)
(***************************************************************************)
\* C5 as stated: a fetched movie page without the grid_view container gives
\* an empty batch, no failure line and no error, and the crawl goes on.
C5_Original ==
    [][(/\ pc = "handle"
        /\ variant \in MovieVariants
        /\ Truthy(html)
        /\ ~html.container)
       => (/\ pc' \in {"sleep", "loop"}
           /\ books' = books
           /\ failLog' = failLog)]_vars

(***************************************************************************)
(* C6                                                                      *)
(***************************************************************************)
\* C6 as stated: in the extraction of a movie page an item that lacks a
\* required sub-element, or whose rank or rating does not parse, is dropped
\* alone: the listings are those of the other items, in document order.
C6_Original ==
    (pc = "parsed" /\ variant \in MovieVariants /\ html.container) =>
        /\ ~parsed.raised
        /\ Names(parsed.batch) = Names(SelectSeq(html.items, Complete))

(***************************************************************************)
(* C7                                                                      *)
(***************************************************************************)
GlyphTokens == {YenEntity, YenSign, FullwidthYen}
Fifty980 == <<"5", "9", ".", "8", "0">>

\* the tokens that are no currency glyph, without the spaces around them
RECURSIVE TrimTokens(_)
TrimTokens(toks) ==
    IF toks # <<>> /\ Head(toks) = <<" ">> THEN TrimTokens(Tail(toks))
    ELSE IF toks # <<>> /\ toks[Len(toks)] = <<" ">>
         THEN TrimTokens(SubSeq(toks, 1, Len(toks) - 1))
         ELSE toks

Rest(toks) == Flatten(TrimTokens(SelectSeq(toks, LAMBDA t : t \notin GlyphTokens)))

\* C7: price normalization returns a value for every text and never raises;
\* the value is the number left when the three glyphs and the white space
\* around are taken away, and 0 when nothing or no number is left; the four
\* texts of the specification give 59.80, 59.80, 59.80 and 0.
C7_PriceNormalization ==
    pricePc = "done" =>
        /\ ~price.raised
        /\ price.val = IF ParseFloat(Rest(price_text)).ok
                       THEN ParseFloat(Rest(price_text)).val
                       ELSE Zero
        /\ price_text \in {<<YenEntity, Fifty980>>, <<YenSign, Fifty980>>,
                           <<FullwidthYen, Fifty980>>}
              => price.val = [neg |-> FALSE, m |-> 598, e |-> 1]
        /\ price_text = <<>> => price.val = [neg |-> FALSE, m |-> 0, e |-> 0]

\* the full-width yen sign before 59.80 has been normalized to 59.8
C7_Witness ==
    /\ pricePc = "done"
    /\ price_text = <<FullwidthYen, Fifty980>>
    /\ price.val = [neg |-> FALSE, m |-> 598, e |-> 1]

RECURSIVE PageOf(_, _, _)
PageOf(log, n, k) ==
    IF k <= Len(log[n].batch) THEN n ELSE PageOf(log, n + 1, k - Len(log[n].batch))

\* C9 as stated: in the listing sequence of a crawl no two listings have the
\* same rank, and the ranks of a later page are at least those of an earlier
\* page.
C9_Original ==
    (variant \in ClassVariants /\ Len(Appended) = Len(ConcatBatches(pageLog))) =>
        /\ \A a, b \in 1..Len(books) : a # b => books[a].rank # books[b].rank
        /\ \A a, b \in 1..Len(Appended) :
              PageOf(pageLog, 1, a) < PageOf(pageLog, 1, b)
                 => Appended[a].rank <= Appended[b].rank

\* C9 amended: the ranks of the listings a crawl appends are the ranks its
\* pages reported, in page order and then document order: nothing is
\* deduplicated or sorted, so the ranks are unique and non-decreasing across
\* pages exactly when the pages report them so.
C9_RanksAsReported ==
    variant \in ClassVariants =>
        Ranks(Appended) = Ranks(ConcatBatches(pageLog))

\* a finished crawl in which two pages reported the same rank and both
\* listings were kept
C9_Witness ==
    /\ variant \in ClassVariants
    /\ pc = "done"
    /\ \E m, n \in 1..Len(pageLog) :
          /\ m < n
          /\ \E a \in 1..Len(pageLog[m].batch), b \in 1..Len(pageLog[n].batch) :
                pageLog[m].batch[a].rank = pageLog[n].batch[b].rank
    /\ Len(Appended) >= 2

(***************************************************************************)
(* C10                                                                     *)
(***************************************************************************)
\* C10: pages are fetched one at a time in increasing index: at most one GET
\* is in flight, it is the GET of page i, and when it is in flight every
\* earlier page of the range has been fetched and handled and its listings
\* are in the result.
C10_Sequential ==
    /\ Cardinality(inflight) <= 1
    /\ inflight # {} =>
          /\ pc = "waiting"
          /\ inflight = {i}
          /\ [k \in 1..Len(pageLog) |-> pageLog[k].page]
                = PageRange(variant, i - FirstIndex(variant))
          /\ Appended = ConcatBatches(pageLog)

\* the GET of a later page in flight after an earlier page gave listings
C10_Witness ==
    /\ pc = "waiting"
    /\ inflight = {i}
    /\ i > FirstIndex(variant)
    /\ pageLog # <<>>
    /\ pageLog[Len(pageLog)].batch # <<>>

(***************************************************************************)
(* C11                                                                     *)
(***************************************************************************)
\* C11 as stated: when the GET of a page after the first is about to be
\* sent, exactly one wait has been made since the GET before, and it lasted
\* 1 to 2 s for the book source, 2 to 4 s for the movie source.
C11_Original ==
    (/\ pc = "loop"
     /\ i > FirstIndex(variant)
     /\ i <= LastIndex(variant, max_pages)) =>
        /\ Len(pause) = 1
        /\ IF variant \in BookVariants THEN pause[1] \in 1..2
                                       ELSE pause[1] \in 2..4

(***************************************************************************)
(* C12                                                                     *)
(***************************************************************************)
\* return self.books hands the caller the list object itself: what an
\* earlier crawl returned is the list the running crawl started on
ReturnedEarlier == crawlStart > 0

\* C12 as stated: a crawl starts from an empty result, a step only appends
\* to the result, and once a crawl has returned its result the result stays
\* as it was returned, also while a second crawl runs on the same scraper
\* object.
C12_Original ==
    [][/\ (pc \in {"idle", "done"} /\ pc' = "loop") => books' = <<>>
       /\ Len(books) <= Len(books')
       /\ SubSeq(books', 1, Len(books)) = books
       /\ (pc = "done" \/ ReturnedEarlier) => books' = books]_vars

(***************************************************************************)
(* C13                                                                     *)
(***************************************************************************)
\* C13: the fetch never raises to its caller: whenever a GET has ended, in a
\* request exception, a status other than 200 or a 200, the caller holds a
\* value and goes on to handle the page: None for the exception and for the
\* other status, the text of the response, empty or not, for a 200.
C13_FetchReturnsValue ==
    outcome # "none" =>
        /\ pc = "handle"
        /\ outcome \in {"exception", "non200"} => html = None
        /\ outcome = "empty200" => html = EmptyText
        /\ outcome = "body" => html.kind = "body"

\* a GET ended in a request exception and the caller holds None
C13_Witness ==
    /\ outcome = "exception"
    /\ pc = "handle"
    /\ html = None

(***************************************************************************)
(* C14                                                                     *)
(***************************************************************************)
\* a well-formed listing block: a book block with all its fragments, a movie
\* item with all its sub-elements, texts that parse and a tagline, if any,
\* that is a single string
WellFormed(v, x) == IF v \in BookVariants THEN x.missing = "none" ELSE Listed(x)

\* what the pattern captures from block k alone
OwnMatch(block, k) ==
    [rank |-> block.rank, price |-> block.price,
     src |-> [g \in 1..Len(Groups) |-> k]]

\* the record of block k of a page, made of the fields of that block only
OwnRecord(v, x, k) ==
    CASE v = "book_py" -> RawBook(OwnMatch(x, k))
      [] v = "DangdangBookScraper" -> TypedBook(OwnMatch(x, k))
      [] v = "movie_py" -> RawMovie(x)
      [] OTHER -> TypedMovie(x)

Kept(v, items) == SelectSeq(items, LAMBDA it : ItemOutcome(v, it).res = "ok")

\* C15: the tagline of every listing a movie page gives is the text of the
\* inq element of its item when the item has one and 'NOT AVAILABLE' when it
\* has none, and an item without inq element is listed or not exactly as the
\* same item with a tagline is: the absence never drops it.
C15_Tagline ==
    (/\ pc = "parsed"
     /\ variant \in MovieVariants
     /\ html.container
     /\ ~parsed.raised) =>
        /\ Len(parsed.batch) = Len(Kept(variant, html.items))
        /\ \A k \in 1..Len(parsed.batch) :
              parsed.batch[k].intro
                 = IF Kept(variant, html.items)[k].inq THEN InqText
                                                       ELSE NotAvailable
        /\ \A k \in 1..Len(html.items) :
              ~html.items[k].inq =>
                 ItemOutcome(variant, html.items[k]).res
                    = ItemOutcome(variant, [html.items[k] EXCEPT !.inq = TRUE]).res

\* a page of an item with tagline and an item without has given both
\* listings, the second with the sentinel
C15_Witness ==
    /\ pc = "parsed"
    /\ variant \in MovieVariants
    /\ Len(html.items) = 2
    /\ html.items[1].inq
    /\ ~html.items[2].inq
    /\ Len(parsed.batch) = 2
    /\ parsed.batch[1].intro = InqText
    /\ parsed.batch[2].intro = NotAvailable

(***************************************************************************)
(* C16                                                                     *)
(***************************************************************************)
\* the indexes of the well-formed blocks of a page, in document order
GoodBlocks(v, items) ==
    SelectSeq([k \in 1..Len(items) |-> k], LAMBDA k : WellFormed(v, items[k]))

\* C16 as stated: the pattern extraction of a book page gives no error and
\* exactly the records of its well-formed blocks, in document order, each
\* made of the fields of its own block; a malformed block gives nothing.
C16_Original ==
    (pc = "parsed" /\ variant \in BookVariants) =>
        /\ ~parsed.raised
        /\ Len(parsed.batch) = Len(GoodBlocks(variant, html.items))
        /\ \A j \in 1..Len(parsed.batch) :
              parsed.batch[j]
                 = OwnRecord(variant,
                             html.items[GoodBlocks(variant, html.items)[j]],
                             GoodBlocks(variant, html.items)[j])

(***************************************************************************)
(* C17                                                                     *)
(***************************************************************************)
\* a listing whose rank has passed int()
Typed(l) == "rank" \in DOMAIN l

\* C17 as stated: in a scraper class a page whose fetch gave no body is left
\* without extraction and adds nothing; a page whose fetch gave a body is
\* extracted, its records are normalized and only then appended, all of them
\* typed, and normalization drops only the records whose rank or rating does
\* not convert: of a movie page every item with its required sub-elements
\* and texts that parse is listed, of a book page every match of the pattern.
C17_Original ==
    [][(pc = "handle" /\ variant \in ClassVariants) =>
          IF Truthy(html)
          THEN /\ pc' = "sleep"
               /\ \A k \in 1..Len(books') : Typed(books'[k])
               /\ IF variant \in MovieVariants
                  THEN Names(books')
                          = Names(books) \o Names(SelectSeq(html.items, Complete))
                  ELSE Len(books')
                          = Len(books) + Len(FindAll(PageTokens(html.items, 1), 1))
          ELSE /\ books' = books
               /\ pageLog' = pageLog]_vars

(***************************************************************************)
(* C18                                                                     *)
(***************************************************************************)
\* the URL parameters of the fetches a crawl of n pages is to make, in order
ExpectedFetches(v, n) ==
    [k \in 1..n |-> IF v \in BookVariants THEN k ELSE 25 * (k - 1)]

\* the URL parameters of the fetches the running crawl has made, in order
Fetched(v, log) == [k \in 1..Len(log) |-> UrlParam(v, log[k].page)]

\* C18: a crawl of the scraper classes and of book.py over N pages makes
\* exactly N fetches: at every moment the fetches made are the first ones of
\* the range in order, each once (no retry, no skip), the fetch in flight is
\* the next of the range, and the crawl ends only when all N are made,
\* whatever the pages gave.
C18_OneFetchPerPage ==
    variant # "movie_py" =>
        /\ pc # "crashed"
        /\ Len(pageLog) <= max_pages
        /\ Fetched(variant, pageLog)
              = SubSeq(ExpectedFetches(variant, max_pages), 1, Len(pageLog))
        /\ pc = "waiting" =>
              /\ Len(pageLog) < max_pages
              /\ UrlParam(variant, i)
                    = ExpectedFetches(variant, max_pages)[Len(pageLog) + 1]
        /\ pc = "done" => Len(pageLog) = max_pages

\* a finished crawl of two pages: the first failed, the second was fetched
\* and gave no listing
C18_Witness ==
    /\ variant # "movie_py"
    /\ pc = "done"
    /\ max_pages = 2
    /\ Len(pageLog) = 2
    /\ ~pageLog[1].ok
    /\ pageLog[2].ok
    /\ pageLog[2].batch = <<>>

(***************************************************************************)
(* C19                                                                     *)
(***************************************************************************)
\* C19 as stated: a page whose fetch returned a 200 with an empty text is not
\* extracted, adds no listing, is reported as a failed page, and the crawl
\* goes on.
C19_Original ==
    [][(pc = "handle" /\ html = EmptyText /\ variant # "movie_py") =>
          /\ books' = books
          /\ pageLog' = pageLog
          /\ failLog' = Append(failLog, PageNo(variant, i))
          /\ pc' \in {"sleep", "loop"}]_vars

\* C19 amended: a page whose fetch returned a 200 with an empty text is
\* handled as a page whose fetch returned None is: it is not extracted, adds
\* no listing and the crawl goes on to the next page; a scraper class prints
\* the failure line with the page number and then sleeps, book.py and
\* movie.py print no failure line for either.
C19_EmptyAsFailed ==
    [][(pc = "handle" /\ html \in {EmptyText, None}) =>
          /\ books' = books
          /\ pageLog' = pageLog
          /\ IF variant \in ClassVariants
             THEN /\ failLog' = Append(failLog, PageNo(variant, i))
                  /\ pc' = "sleep"
                  /\ i' = i
             ELSE /\ failLog' = failLog
                  /\ pc' = "loop"
                  /\ i' = NextIndex(i)]_vars

\* a finished crawl of a scraper class whose first page was a 200 with an
\* empty text: its failure line is printed and the next page gave listings
C19_Witness ==
    /\ variant \in ClassVariants
    /\ pc = "done"
    /\ Len(pageLog) = 2
    /\ pageLog[1].empty
    /\ pageLog[1].batch = <<>>
    /\ failLog = <<PageNo(variant, pageLog[1].page)>>
    /\ pageLog[2].batch # <<>>

====
